---- MODULE Spec2Model ----
(***************************************************************************)
(* Model of the two command-line tools of the flashcards repository:       *)
(*   bin/lib/extract_pdf_text.py        (the text tool)                    *)
(*   scripts/extract_figures_from_pdf.py (the figure tool)                 *)
(* Strings are sequences of one-character strings, so that formatting and  *)
(* lexical comparison are computed character by character.                 *)
(***************************************************************************)
EXTENDS Integers, Sequences, FiniteSets, TLC

VARIABLES
  \* ---- text tool (extract_pdf_text.py) ----
  t_pc,       \* control point of the process
  t_argc,     \* len(sys.argv)
  t_pdf,      \* the file named by argv[1]: the sequence of its pages' texts
  doc,        \* the document handle: "none", "open" or "closed"
  text,       \* the local `text` of extract_text_from_pdf
  page_num,   \* pages consumed so far by the for loop
  t_stdout,   \* characters written to standard output
  t_stderr,   \* messages written to the error stream
  t_exit,     \* exit status, NoExit while the process runs
  t_failed,   \* "none", "open" or "page": what raised inside the try block
  \* ---- figure tool (extract_figures_from_pdf.py) ----
  f_pc,        \* control point of the process
  f_argv,      \* the command line: which options are given, and their values
  f_args,      \* the namespace parse_args returns
  f_pdf,       \* the file at --pdf: [exists, pages]
  f_dirExists, \* the output directory exists
  f_files,     \* the files of the output directory: name -> content
  f_images,    \* the list convert_from_path returned
  f_i,         \* the loop index i of the save loop
  f_out,       \* lines printed
  f_exit,      \* exit status, NoExit while the process runs
  f_cause,     \* what raised inside the try block: "none", "mkdir", "render",
               \* "format" (the save call rejects the format) or "io"
  f_run,       \* number of the current invocation on this directory
  f_pre,       \* directory state when the current invocation started
  f_first,     \* [exit, files] at the end of the first invocation
  \* ---- file-name formatting, taken on its own ----
  n_pc, n_i, n_j, n_fmt, n_name_i, n_name_j

textVars == <<t_pc, t_argc, t_pdf, doc, text, page_num, t_stdout, t_stderr,
              t_exit, t_failed>>
figVars == <<f_pc, f_argv, f_args, f_pdf, f_dirExists, f_files, f_images, f_i,
              f_out, f_exit, f_cause, f_run, f_pre, f_first>>
nameVars == <<n_pc, n_i, n_j, n_fmt, n_name_i, n_name_j>>
vars == <<textVars, figVars, nameVars>>

\* ------------------------------------------------------------------ bounds
MaxPages == 3
MaxRuns == 2

\* --------------------------------------------------------- program constants
BannerWidth == 80
PadWidth == 3
DefaultDpi == 300
ArgparseErrorStatus == 2
NoExit == <<>>

\* ------------------------------------------------------------------ strings
Rep(c, n) == [k \in 1..n |-> c]

DigitChars == <<"0", "1", "2", "3", "4", "5", "6", "7", "8", "9">>

IsDigit(c) == \E d \in 1..10 : DigitChars[d] = c

\* str(n) of a non-negative integer: its decimal digits, no padding
RECURSIVE Str(_)
Str(n) == IF n < 10 THEN <<DigitChars[n + 1]>>
          ELSE Str(n \div 10) \o <<DigitChars[(n % 10) + 1]>>

\* the value a digit string denotes
RECURSIVE DecVal(_)
DecVal(s) == IF s = <<>> THEN 0
             ELSE 10 * DecVal(SubSeq(s, 1, Len(s) - 1))
                  + (CHOOSE d \in 0..9 : DigitChars[d + 1] = s[Len(s)])

EqLine == Rep("=", BannerWidth)

\* ---------------------------------------------------------------- text tool
\* variant: the banner without its closing blank line
BannerNoBlank(n) ==
  <<"\n">> \o EqLine \o <<"\n">>
  \o <<"P", "A", "G", "E", " ">> \o Str(n) \o <<"\n">>
  \o EqLine \o <<"\n">>

\* what one iteration of the loop appends before the page's text
Banner(n) ==
  <<"\n">> \o EqLine \o <<"\n">>
  \o <<"P", "A", "G", "E", " ">> \o Str(n) \o <<"\n">>
  \o EqLine \o <<"\n", "\n">>

\* a page text that itself looks like a banner block
FakeBanner ==
  EqLine \o <<"\n", "P", "A", "G", "E", " ", "7", "\n">> \o EqLine \o <<"\n", "\n">>

PageTexts == { <<>>, <<"a">>, EqLine \o <<"\n">>, FakeBanner }

Pdfs == UNION { [1..n -> PageTexts] : n \in 0..MaxPages }

UsageMsg == "Usage: extract_pdf_text.py <pdf_path>"
ErrorMsg == "Error extracting text from PDF"

TextIdle ==
  /\ t_pc = "idle" /\ t_argc = 0 /\ t_pdf = <<>> /\ doc = "none" /\ text = <<>>
  /\ page_num = 0 /\ t_stdout = <<>> /\ t_stderr = <<>> /\ t_exit = NoExit
  /\ t_failed = "none"

TextInit ==
  /\ t_pc = "main"
  /\ t_argc \in 1..3
  /\ t_pdf \in Pdfs
  /\ doc = "none" /\ text = <<>> /\ page_num = 0
  /\ t_stdout = <<>> /\ t_stderr = <<>> /\ t_exit = NoExit /\ t_failed = "none"

\* if len(sys.argv) != 2: usage on stderr, sys.exit(1)
TMainArgs ==
  /\ t_pc = "main"
  /\ IF t_argc # 2
       THEN /\ t_stderr' = Append(t_stderr, UsageMsg)
            /\ t_exit' = <<1>>
            /\ t_pc' = "exited"
       ELSE /\ t_pc' = "open"
            /\ UNCHANGED <<t_stderr, t_exit>>
  /\ UNCHANGED <<t_argc, t_pdf, doc, text, page_num, t_stdout, t_failed>>
  /\ UNCHANGED <<figVars, nameVars>>

\* doc = pymupdf.open(pdf_path); text = ""    (the open may raise)
TOpen ==
  /\ t_pc = "open"
  /\ \E ok \in BOOLEAN :
       IF ok THEN /\ doc' = "open" /\ text' = <<>> /\ page_num' = 0
                  /\ t_pc' = "loop" /\ UNCHANGED t_failed
             ELSE /\ t_pc' = "except" /\ t_failed' = "open"
                  /\ UNCHANGED <<doc, text, page_num>>
  /\ UNCHANGED <<t_argc, t_pdf, t_stdout, t_stderr, t_exit>>
  /\ UNCHANGED <<figVars, nameVars>>

\* one iteration of `for page_num, page in enumerate(doc, start=1)`
TPage ==
  /\ t_pc = "loop"
  /\ page_num < Len(t_pdf)
  /\ \E ok \in BOOLEAN :
       IF ok THEN /\ text' = text \o Banner(page_num + 1) \o t_pdf[page_num + 1]
                  /\ page_num' = page_num + 1
                  /\ UNCHANGED <<t_pc, t_failed>>
             ELSE \* page.get_text() raised: the banner of this page is already in text
                  /\ text' = text \o Banner(page_num + 1)
                  /\ page_num' = page_num + 1
                  /\ t_pc' = "except" /\ t_failed' = "page"
  /\ UNCHANGED <<t_argc, t_pdf, doc, t_stdout, t_stderr, t_exit>>
  /\ UNCHANGED <<figVars, nameVars>>

\* doc.close(); return text
TClose ==
  /\ t_pc = "loop"
  /\ page_num = Len(t_pdf)
  /\ doc' = "closed"
  /\ t_pc' = "print"
  /\ UNCHANGED <<t_argc, t_pdf, text, page_num, t_stdout, t_stderr, t_exit, t_failed>>
  /\ UNCHANGED <<figVars, nameVars>>

\* variant: the except branch also prints what was accumulated
TExceptFlushes ==
  /\ t_pc = "except"
  /\ t_stderr' = Append(t_stderr, ErrorMsg)
  /\ t_stdout' = text \o <<"\n">>
  /\ t_exit' = <<1>>
  /\ t_pc' = "exited"
  /\ UNCHANGED <<t_argc, t_pdf, doc, text, page_num, t_failed>>
  /\ UNCHANGED <<figVars, nameVars>>

\* except Exception as e: print(..., file=sys.stderr); sys.exit(1)
TExcept ==
  /\ t_pc = "except"
  /\ t_stderr' = Append(t_stderr, ErrorMsg)
  /\ t_exit' = <<1>>
  /\ t_pc' = "exited"
  /\ UNCHANGED <<t_argc, t_pdf, doc, text, page_num, t_stdout, t_failed>>
  /\ UNCHANGED <<figVars, nameVars>>

\* print(text), then the interpreter exits with status 0
TPrint ==
  /\ t_pc = "print"
  /\ t_stdout' = text \o <<"\n">>
  /\ t_exit' = <<0>>
  /\ t_pc' = "exited"
  /\ UNCHANGED <<t_argc, t_pdf, doc, text, page_num, t_stderr, t_failed>>
  /\ UNCHANGED <<figVars, nameVars>>

TextNext ==
  \/ TMainArgs
  \/ TOpen
  \/ TPage
  \/ TClose
  \/ TExcept
  \/ TPrint

\* -------------------------------------------------------------- figure tool
Png == <<"p", "n", "g">>
Jpg == <<"j", "p", "g">>
Jpeg == <<"j", "p", "e", "g">>
Xyz == <<"x", "y", "z">>

\* choices=['png', 'jpg', 'jpeg']
FmtChoices == {Png, Jpg, Jpeg}

UpperChar(c) ==
  CASE c = "p" -> "P" [] c = "n" -> "N" [] c = "g" -> "G" [] c = "j" -> "J"
    [] c = "e" -> "E" [] c = "x" -> "X" [] c = "y" -> "Y" [] c = "z" -> "Z"
    [] OTHER -> c

\* fmt.upper()
Upper(s) == [k \in 1..Len(s) |-> UpperChar(s[k])]

\* f"{i:03d}": decimal digits, left-padded with zeros to at least PadWidth
Pad(i) ==
  LET d == Str(i)
  IN  IF Len(d) >= PadWidth THEN d ELSE Rep("0", PadWidth - Len(d)) \o d

\* f"page_{i:03d}.{fmt}"
PageName(i, fmt) ==
  <<"p", "a", "g", "e", "_">> \o Pad(i) \o <<".">> \o fmt

\* the format names the imaging library's save call accepts; an extension such
\* as "jpg" is not a format name, the format is "JPEG"
SaveFormats == { <<"P", "N", "G">>, <<"J", "P", "E", "G">> }

\* the bitmap of page i rendered at dpi
Rendering(i, dpi) == [page |-> i, dpi |-> dpi]

\* the content of a file image.save(output_file, format) wrote
Saved(image, format) == [image |-> image, format |-> format]

\* a file that was there before the tool ran, and a file a failed save left
OldContent == [old |-> TRUE]
PartialContent == [partial |-> TRUE]

Write(files, name, content) ==
  [n \in (DOMAIN files) \cup {name} |-> IF n = name THEN content ELSE files[n]]

Notes == <<"n", "o", "t", "e", "s">>

\* names a directory may hold before the tool runs
PreNames == { PageName(1, Png), PageName(MaxPages + 1, Png), Notes }

Argvs == [pdf : BOOLEAN, output : BOOLEAN,
          fmt : {<<>>} \cup FmtChoices \cup {Xyz},
          dpi : {"", "600", "abc"}]

DpiValue(d) == IF d = "" THEN DefaultDpi ELSE 600

FigIdle ==
  /\ f_pc = "idle"
  /\ f_argv = [pdf |-> FALSE, output |-> FALSE, fmt |-> <<>>, dpi |-> ""]
  /\ f_args = [fmt |-> <<>>, dpi |-> 0]
  /\ f_pdf = [exists |-> FALSE, pages |-> 0]
  /\ f_dirExists = FALSE /\ f_files = <<>> /\ f_images = <<>> /\ f_i = 0
  /\ f_out = <<>> /\ f_exit = NoExit /\ f_cause = "none" /\ f_run = 0
  /\ f_pre = [dir |-> FALSE, files |-> <<>>]
  /\ f_first = [exit |-> NoExit, files |-> <<>>]

FigInit ==
  /\ f_pc = "main"
  /\ f_argv \in Argvs
  /\ f_args = [fmt |-> <<>>, dpi |-> 0]
  /\ f_pdf \in {[exists |-> FALSE, pages |-> 0]}
               \cup {[exists |-> TRUE, pages |-> n] : n \in 0..MaxPages}
  /\ f_dirExists \in BOOLEAN
  /\ \E names \in SUBSET PreNames :
       /\ (~f_dirExists => names = {})
       /\ f_files = [n \in names |-> OldContent]
  /\ f_images = <<>> /\ f_i = 0 /\ f_out = <<>> /\ f_exit = NoExit
  /\ f_cause = "none" /\ f_run = 1
  /\ f_pre = [dir |-> f_dirExists, files |-> f_files]
  /\ f_first = [exit |-> NoExit, files |-> <<>>]

\* variant: --fmt without choices
FParseArgsNoChoices ==
  /\ f_pc = "main"
  /\ IF \/ ~f_argv.pdf
        \/ ~f_argv.output
        \/ f_argv.dpi = "abc"
       THEN /\ f_exit' = <<ArgparseErrorStatus>>
            /\ f_pc' = "exited"
            /\ f_out' = Append(f_out, "usage")
            /\ UNCHANGED f_args
       ELSE /\ f_args' = [fmt |-> IF f_argv.fmt = <<>> THEN Png ELSE f_argv.fmt,
                          dpi |-> DpiValue(f_argv.dpi)]
            /\ f_pc' = "exists"
            /\ UNCHANGED <<f_exit, f_out>>
  /\ UNCHANGED <<f_argv, f_pdf, f_dirExists, f_files, f_images, f_i, f_cause,
                 f_run, f_pre, f_first>>
  /\ UNCHANGED <<textVars, nameVars>>

\* args = parser.parse_args(): a missing required option, a --fmt outside the
\* choices or a --dpi that is no integer ends the process with status 2
FParseArgs ==
  /\ f_pc = "main"
  /\ IF \/ ~f_argv.pdf
        \/ ~f_argv.output
        \/ (f_argv.fmt # <<>> /\ f_argv.fmt \notin FmtChoices)
        \/ f_argv.dpi = "abc"
       THEN /\ f_exit' = <<ArgparseErrorStatus>>
            /\ f_pc' = "exited"
            /\ f_out' = Append(f_out, "usage")
            /\ UNCHANGED f_args
       ELSE /\ f_args' = [fmt |-> IF f_argv.fmt = <<>> THEN Png ELSE f_argv.fmt,
                          dpi |-> DpiValue(f_argv.dpi)]
            /\ f_pc' = "exists"
            /\ UNCHANGED <<f_exit, f_out>>
  /\ UNCHANGED <<f_argv, f_pdf, f_dirExists, f_files, f_images, f_i, f_cause,
                 f_run, f_pre, f_first>>
  /\ UNCHANGED <<textVars, nameVars>>

\* variant: no existence check
FCheckExistsSkipped ==
  /\ f_pc = "exists"
  /\ f_pc' = "mkdir"
  /\ UNCHANGED <<f_out, f_exit>>
  /\ UNCHANGED <<f_argv, f_args, f_pdf, f_dirExists, f_files, f_images, f_i,
                 f_cause, f_run, f_pre, f_first>>
  /\ UNCHANGED <<textVars, nameVars>>

\* if not os.path.exists(args.pdf): print error; return 1
FCheckExists ==
  /\ f_pc = "exists"
  /\ IF ~f_pdf.exists
       THEN /\ f_out' = Append(f_out, "Error: PDF file not found")
            /\ f_exit' = <<1>>
            /\ f_pc' = "exited"
       ELSE /\ f_pc' = "mkdir"
            /\ UNCHANGED <<f_out, f_exit>>
  /\ UNCHANGED <<f_argv, f_args, f_pdf, f_dirExists, f_files, f_images, f_i,
                 f_cause, f_run, f_pre, f_first>>
  /\ UNCHANGED <<textVars, nameVars>>

\* output_path.mkdir(parents=True, exist_ok=True), then the three header lines;
\* creating a missing directory may raise, an existing one is accepted
FMkdir ==
  /\ f_pc = "mkdir"
  /\ \E ok \in BOOLEAN :
       /\ (f_dirExists => ok)
       /\ IF ok THEN /\ f_dirExists' = TRUE
                     /\ f_out' = f_out \o <<"Extracting figures from", "Output directory", "Resolution">>
                     /\ f_pc' = "convert"
                     /\ UNCHANGED f_cause
                ELSE /\ f_pc' = "except" /\ f_cause' = "mkdir"
                     /\ UNCHANGED <<f_dirExists, f_out>>
  /\ UNCHANGED <<f_argv, f_args, f_pdf, f_files, f_images, f_i, f_exit, f_run,
                 f_pre, f_first>>
  /\ UNCHANGED <<textVars, nameVars>>

\* images = convert_from_path(pdf_path, dpi=dpi): every page, in document order
FConvert ==
  /\ f_pc = "convert"
  /\ \E ok \in BOOLEAN :
       IF ok THEN /\ f_images' = [i \in 1..f_pdf.pages |-> Rendering(i, f_args.dpi)]
                  /\ f_i' = 1
                  /\ f_pc' = "save"
                  /\ UNCHANGED f_cause
             ELSE /\ f_pc' = "except" /\ f_cause' = "render"
                  /\ UNCHANGED <<f_images, f_i>>
  /\ UNCHANGED <<f_argv, f_args, f_pdf, f_dirExists, f_files, f_out, f_exit,
                 f_run, f_pre, f_first>>
  /\ UNCHANGED <<textVars, nameVars>>

\* one iteration of `for i, image in enumerate(images, start=1)`
FSave ==
  /\ f_pc = "save"
  /\ f_i <= Len(f_images)
  /\ LET output_file == PageName(f_i, f_args.fmt)
         format == Upper(f_args.fmt)
     IN  IF format \notin SaveFormats
           THEN \* the save call raises before it opens the file
                /\ f_pc' = "except" /\ f_cause' = "format"
                /\ UNCHANGED <<f_files, f_out, f_i>>
           ELSE \E ok \in BOOLEAN :
                  IF ok
                    THEN /\ f_files' = Write(f_files, output_file, Saved(f_images[f_i], format))
                         /\ f_out' = Append(f_out, "Saved")
                         /\ f_i' = f_i + 1
                         /\ UNCHANGED <<f_pc, f_cause>>
                    ELSE \* the write failed: the file is untouched or truncated
                         /\ f_files' \in {f_files, Write(f_files, output_file, PartialContent)}
                         /\ f_pc' = "except" /\ f_cause' = "io"
                         /\ UNCHANGED <<f_out, f_i>>
  /\ UNCHANGED <<f_argv, f_args, f_pdf, f_dirExists, f_images, f_exit, f_run,
                 f_pre, f_first>>
  /\ UNCHANGED <<textVars, nameVars>>

\* the closing prints of extract_figures, then `return 0`
FFinish ==
  /\ f_pc = "save"
  /\ f_i > Len(f_images)
  /\ f_out' = f_out \o <<"Successfully extracted", "Next steps">>
  /\ f_exit' = <<0>>
  /\ f_pc' = "exited"
  /\ UNCHANGED <<f_argv, f_args, f_pdf, f_dirExists, f_files, f_images, f_i,
                 f_cause, f_run, f_pre, f_first>>
  /\ UNCHANGED <<textVars, nameVars>>

\* variant: the except branch prints the error only
FExceptNoReminder ==
  /\ f_pc = "except"
  /\ f_out' = f_out \o <<"Error">>
  /\ f_exit' = <<1>>
  /\ f_pc' = "exited"
  /\ UNCHANGED <<f_argv, f_args, f_pdf, f_dirExists, f_files, f_images, f_i,
                 f_cause, f_run, f_pre, f_first>>
  /\ UNCHANGED <<textVars, nameVars>>

\* variant: the except branch removes the page files
FExceptRollback ==
  /\ f_pc = "except"
  /\ f_out' = f_out \o <<"Error", "Make sure you have installed dependencies">>
  /\ f_exit' = <<1>>
  /\ f_pc' = "exited"
  /\ f_files' = [n \in (DOMAIN f_files) \ {PageName(j, f_args.fmt) : j \in 1..f_pdf.pages}
                  |-> f_files[n]]
  /\ UNCHANGED <<f_argv, f_args, f_pdf, f_dirExists, f_images, f_i,
                 f_cause, f_run, f_pre, f_first>>
  /\ UNCHANGED <<textVars, nameVars>>

\* except Exception as e: print the error and the dependency reminder; return 1
FExcept ==
  /\ f_pc = "except"
  /\ f_out' = f_out \o <<"Error", "Make sure you have installed dependencies">>
  /\ f_exit' = <<1>>
  /\ f_pc' = "exited"
  /\ UNCHANGED <<f_argv, f_args, f_pdf, f_dirExists, f_files, f_images, f_i,
                 f_cause, f_run, f_pre, f_first>>
  /\ UNCHANGED <<textVars, nameVars>>

\* the same command line is run again on the directory the last run left
FRerun ==
  /\ f_pc = "exited"
  /\ f_run < MaxRuns
  /\ f_run' = f_run + 1
  /\ f_first' = IF f_run = 1 THEN [exit |-> f_exit, files |-> f_files] ELSE f_first
  /\ f_pre' = [dir |-> f_dirExists, files |-> f_files]
  /\ f_pc' = "main"
  /\ f_args' = [fmt |-> <<>>, dpi |-> 0]
  /\ f_images' = <<>> /\ f_i' = 0 /\ f_out' = <<>> /\ f_exit' = NoExit
  /\ f_cause' = "none"
  /\ UNCHANGED <<f_argv, f_pdf, f_dirExists, f_files>>
  /\ UNCHANGED <<textVars, nameVars>>

FigNext ==
  \/ FParseArgs
  \/ FCheckExists
  \/ FMkdir
  \/ FConvert
  \/ FSave
  \/ FFinish
  \/ FExcept
  \/ FRerun

\* ------------------------------------------------- file names, on their own
\* code points of the characters a page file name is made of
Ord(c) ==
  CASE c = "." -> 46 [] c = "_" -> 95
    [] c = "a" -> 97 [] c = "e" -> 101 [] c = "g" -> 103 [] c = "j" -> 106
    [] c = "n" -> 110 [] c = "p" -> 112
    [] OTHER -> 48 + (CHOOSE d \in 0..9 : DigitChars[d + 1] = c)

\* a < b as the language compares strings: by the first differing character,
\* a proper prefix first
StrLess(a, b) ==
  \/ /\ Len(a) < Len(b)
     /\ a = SubSeq(b, 1, Len(a))
  \/ \E k \in 1..Len(a) :
       /\ k <= Len(b)
       /\ SubSeq(a, 1, k - 1) = SubSeq(b, 1, k - 1)
       /\ Ord(a[k]) < Ord(b[k])

\* page indexes around every change of the number of digits
IndexSamples == {1, 2, 9, 10, 11, 99, 100, 101, 999, 1000, 1001}

NameIdle ==
  /\ n_pc = "idle" /\ n_i = 0 /\ n_j = 0 /\ n_fmt = <<>>
  /\ n_name_i = <<>> /\ n_name_j = <<>>

NameInit ==
  /\ n_pc = "start"
  /\ n_i \in IndexSamples /\ n_j \in IndexSamples
  /\ n_fmt \in FmtChoices
  /\ n_name_i = <<>> /\ n_name_j = <<>>

\* the names the save loop gives pages n_i and n_j
NFormat ==
  /\ n_pc = "start"
  /\ n_name_i' = PageName(n_i, n_fmt)
  /\ n_name_j' = PageName(n_j, n_fmt)
  /\ n_pc' = "named"
  /\ UNCHANGED <<n_i, n_j, n_fmt>>
  /\ UNCHANGED <<textVars, figVars>>

NameNext == NFormat

\* ------------------------------------------------------------ specification
\* one invocation of the text tool, or runs of the figure tool on a directory,
\* or the naming of two pages
Init ==
  \/ TextInit /\ FigIdle /\ NameIdle
  \/ FigInit /\ TextIdle /\ NameIdle
  \/ NameInit /\ TextIdle /\ FigIdle

Next == TextNext \/ FigNext \/ NameNext

Spec == Init /\ [][Next]_vars

\* ============================================================== properties

\* ---- banner blocks in a string ----
\* the block the text tool's output is read by: a line of BannerWidth '=', a
\* line "PAGE <digits>", a line of BannerWidth '=', a blank line
DigitsEnd(s, p) ==
  \* the position of the newline ending the "PAGE <digits>" line of a block at p
  CHOOSE q \in (p + BannerWidth + 7)..(Len(s) + 1) :
    \/ q = Len(s) + 1
    \/ ~IsDigit(s[q])

BlockAt(s, p) ==
  /\ p = 1 \/ s[p - 1] = "\n"
  /\ s[p] = "="
  /\ p + BannerWidth + 6 <= Len(s)
  /\ SubSeq(s, p, p + BannerWidth - 1) = EqLine
  /\ SubSeq(s, p + BannerWidth, p + BannerWidth + 5) = <<"\n", "P", "A", "G", "E", " ">>
  /\ IsDigit(s[p + BannerWidth + 6])
  /\ LET q == DigitsEnd(s, p)
     IN  /\ q + BannerWidth + 2 <= Len(s)
         /\ s[q] = "\n"
         /\ SubSeq(s, q + 1, q + BannerWidth) = EqLine
         /\ s[q + BannerWidth + 1] = "\n"
         /\ s[q + BannerWidth + 2] = "\n"

BlockNum(s, p) == DecVal(SubSeq(s, p + BannerWidth + 6, DigitsEnd(s, p) - 1))

\* the last position of the block at p
BlockEnd(s, p) == DigitsEnd(s, p) + BannerWidth + 2

BlockPositions(s) == { p \in 1..Len(s) : BlockAt(s, p) }

\* t is what follows position e of s
FollowedBy(s, e, t) ==
  /\ e + Len(t) <= Len(s)
  /\ SubSeq(s, e + 1, e + Len(t)) = t

HasEqRun(t) ==
  \E p \in 1..Len(t) :
    /\ p + BannerWidth - 1 <= Len(t)
    /\ SubSeq(t, p, p + BannerWidth - 1) = EqLine

\* extract_text_from_pdf has returned
TextReturned == t_pc \in {"print", "exited"} /\ doc = "closed"

\* where the loop put the block of page n: after the newline that opens it
RECURSIVE BlockStart(_)
BlockStart(n) ==
  IF n = 1 THEN 2
  ELSE BlockEnd(text, BlockStart(n - 1)) + Len(t_pdf[n - 1]) + 2

\* C1 (as stated): for a PDF that opens with N >= 1 pages the returned string
\* contains exactly N banner blocks, numbered 1..N in strictly increasing order
\* without gaps, each immediately followed by the text of its page.
C1_ExactlyNBanners ==
  (TextReturned /\ Len(t_pdf) >= 1) =>
    LET P == BlockPositions(text)
        N == Len(t_pdf)
    IN  /\ Cardinality(P) = N
        /\ \A n \in 1..N : \E p \in P :
             /\ BlockNum(text, p) = n
             /\ FollowedBy(text, BlockEnd(text, p), t_pdf[n])
        /\ \A p \in P : \A q \in P :
             p < q => BlockNum(text, p) < BlockNum(text, q)

\* C1 (amended): the returned string is, for n = 1..N in order, a newline, the
\* banner block of page n and the text of page n (also when it is empty), and
\* nothing else; these are all the banner blocks of the string when no page's
\* text holds a run of BannerWidth '='.
C1_BannerPerPage ==
  (TextReturned /\ Len(t_pdf) >= 1) =>
    LET N == Len(t_pdf)
    IN  /\ \A n \in 1..N :
             LET p == BlockStart(n)
             IN  /\ text[p - 1] = "\n"
                 /\ BlockAt(text, p)
                 /\ BlockNum(text, p) = n
                 /\ FollowedBy(text, BlockEnd(text, p), t_pdf[n])
        /\ BlockEnd(text, BlockStart(N)) + Len(t_pdf[N]) = Len(text)
        /\ (\A n \in 1..N : ~HasEqRun(t_pdf[n])) =>
             BlockPositions(text) = { BlockStart(n) : n \in 1..N }

\* a returned text of several pages, one of them with no text
C1_Witness ==
  /\ TextReturned
  /\ Len(t_pdf) >= 2
  /\ \A n \in 1..Len(t_pdf) : ~HasEqRun(t_pdf[n])
  /\ \E n \in 1..Len(t_pdf) : t_pdf[n] = <<>>

\* C2: extraction is all-or-nothing: when the open or the extraction of a page
\* fails, the tool prints an error to the error stream, exits non-zero and has
\* written nothing to standard output; standard output is written only after
\* every page has been extracted.
C2_AllOrNothing ==
  /\ t_failed # "none" => t_stdout = <<>>
  /\ (t_failed # "none" /\ t_pc = "exited") =>
       /\ t_exit = <<1>>
       /\ t_stderr = <<ErrorMsg>>
  /\ t_stdout # <<>> =>
       /\ t_failed = "none"
       /\ page_num = Len(t_pdf)
       /\ t_stdout = text \o <<"\n">>

\* page k >= 2 failed after the banners and texts of pages 1..k-1 were accumulated
C2_Witness ==
  /\ t_pc = "exited"
  /\ t_failed = "page"
  /\ page_num >= 2
  /\ Len(text) > Len(Banner(1))
  /\ t_exit = <<1>>

\* C7: the document handle extract_text_from_pdf opened is closed on every path
\* out of the call, the error path included.
C7_HandleReleased ==
  t_pc \in {"print", "exited"} => doc # "open"

\* C9: usage errors are detected before any I/O: the text tool with an argument
\* count other than one exits 1 with the usage message on the error stream,
\* nothing on standard output and no PDF opened; the figure tool with --pdf or
\* --output missing or --fmt outside the choices exits non-zero in argument
\* parsing, before the existence check, mkdir, rendering or any file write.
BadArgv ==
  \/ ~f_argv.pdf
  \/ ~f_argv.output
  \/ f_argv.fmt \notin ({<<>>} \cup {Png, Jpg, Jpeg})

C9_UsageBeforeIO ==
  /\ (t_pc # "idle" /\ t_argc # 2) =>
       /\ t_pc \in {"main", "exited"}
       /\ doc = "none" /\ t_stdout = <<>> /\ text = <<>>
       /\ t_pc = "exited" => (t_exit = <<1>> /\ t_stderr = <<UsageMsg>>)
  /\ (f_pc # "idle" /\ BadArgv) =>
       /\ f_pc \in {"main", "exited"}
       /\ f_dirExists = f_pre.dir /\ f_files = f_pre.files
       /\ f_images = <<>>
       /\ f_cause = "none"
       /\ f_pc = "exited" => (f_exit \notin {NoExit, <<0>>} /\ f_out = <<"usage">>)

\* --fmt xyz on an existing PDF and an existing directory with files
C9_Witness ==
  /\ f_pc = "exited"
  /\ f_argv.pdf /\ f_argv.output /\ f_argv.fmt = Xyz
  /\ f_pdf.exists /\ f_pdf.pages >= 1
  /\ f_dirExists /\ f_files # <<>>
  /\ f_exit = <<ArgparseErrorStatus>>

\* ---- figure tool ----
\* argument parsing succeeded and the PDF path exists
PastChecks == f_pc \notin {"idle", "main", "exists"} /\ ~BadArgv /\ f_argv.dpi # "abc" /\ f_pdf.exists

PageNames == { PageName(i, f_args.fmt) : i \in 1..f_pdf.pages }

NewFile(i) == Saved(Rendering(i, f_args.dpi), Upper(f_args.fmt))

SameAsBefore(name) ==
  IF name \in DOMAIN f_pre.files
    THEN name \in DOMAIN f_files /\ f_files[name] = f_pre.files[name]
    ELSE name \notin DOMAIN f_files

\* nothing outside the program failed: the directory could be made, the PDF
\* rendered, every write went through
NoOutsideFailure == f_cause \notin {"mkdir", "render", "io"}

\* C3: for a valid PDF of N pages and every accepted fmt, the run exits 0 and
\* writes exactly N files page_001.<fmt> .. page_N.<fmt>, file i the rendering
\* of page i, fmt giving both the format of the save call and the extension.
C3_NFilesEveryFmt ==
  (f_pc = "exited" /\ PastChecks /\ NoOutsideFailure) =>
    /\ f_exit = <<0>>
    /\ \A i \in 1..f_pdf.pages :
         /\ PageName(i, f_args.fmt) \in DOMAIN f_files
         /\ f_files[PageName(i, f_args.fmt)] = NewFile(i)
    /\ \A name \in (DOMAIN f_files \cup DOMAIN f_pre.files) \ PageNames :
         SameAsBefore(name)

\* C4: for every page count the names of pages 1..N are pairwise distinct and
\* sort, as strings, in page order.
C4_NamesSortInPageOrder ==
  (n_pc = "named" /\ n_i < n_j) =>
    /\ n_name_i # n_name_j
    /\ StrLess(n_name_i, n_name_j)

\* C5: with a PDF path that does not exist the figure tool prints an error and
\* exits 1; it creates no directory, creates or overwrites no file and never
\* renders: the existence check comes before all of these.
C5_MissingPdf ==
  (f_pc # "idle" /\ ~BadArgv /\ f_argv.dpi # "abc" /\ ~f_pdf.exists) =>
    /\ f_pc \in {"main", "exists", "exited"}
    /\ f_dirExists = f_pre.dir /\ f_files = f_pre.files
    /\ f_images = <<>> /\ f_cause = "none"
    /\ f_pc = "exited" =>
         (f_exit = <<1>> /\ f_out = <<"Error: PDF file not found">>)

C5_Witness ==
  /\ f_pc = "exited"
  /\ ~BadArgv /\ f_argv.dpi # "abc"
  /\ ~f_pdf.exists
  /\ ~f_dirExists
  /\ f_exit = <<1>>

\* C6: once arguments are parsed and the PDF exists, the exit status is 0
\* exactly when the directory was made or was there, rendering succeeded and
\* all N pages were saved; any failure of mkdir, rendering or a save is caught,
\* the error and the dependency reminder are printed and the status is 1; no
\* other status is reachable.
AllSaved ==
  /\ f_dirExists
  /\ Len(f_images) = f_pdf.pages
  /\ f_i = f_pdf.pages + 1
  /\ \A i \in 1..f_pdf.pages :
       /\ PageName(i, f_args.fmt) \in DOMAIN f_files
       /\ f_files[PageName(i, f_args.fmt)] = NewFile(i)

C6_ExitStatus ==
  (f_pc = "exited" /\ PastChecks) =>
    /\ f_exit \in {<<0>>, <<1>>}
    /\ f_exit = <<0>> <=> AllSaved
    /\ f_exit = <<0>> <=> f_cause = "none"
    /\ f_cause # "none" =>
         /\ Len(f_out) >= 2
         /\ SubSeq(f_out, Len(f_out) - 1, Len(f_out))
              = <<"Error", "Make sure you have installed dependencies">>

\* the save of page 2 failed
C6_Witness ==
  /\ f_pc = "exited" /\ PastChecks
  /\ f_cause = "io" /\ f_i = 2
  /\ f_exit = <<1>>

\* C8: on a directory that is already there, whatever it holds, the run does
\* not fail for that; every page_i.<fmt>, 1 <= i <= N, is overwritten with the
\* new rendering, every other file is left as it was, and a second run leaves
\* what the first left.
C8_OverwriteAndFrame ==
  (f_pc = "exited" /\ PastChecks /\ f_pre.dir /\ NoOutsideFailure) =>
    /\ f_exit = <<0>>
    /\ \A i \in 1..f_pdf.pages :
         /\ PageName(i, f_args.fmt) \in DOMAIN f_files
         /\ f_files[PageName(i, f_args.fmt)] = NewFile(i)
    /\ \A name \in (DOMAIN f_files \cup DOMAIN f_pre.files) \ PageNames :
         SameAsBefore(name)
    /\ (f_run = 2 /\ f_first.exit = <<0>>) => f_files = f_first.files

\* C10: no rollback and no write out of order: the directory is made first,
\* then all pages are rendered, then the page files are written one by one in
\* increasing index. When rendering fails the directory exists and no page file
\* was made or overwritten in this run; when the save of page k fails, the
\* files of pages 1..k-1 of this run are on disk, no file of a page > k was
\* written, and the run exits 1.
C10_Failure ==
  (f_pc \in {"except", "exited"} /\ PastChecks) =>
    /\ f_cause = "render" =>
         /\ f_dirExists
         /\ f_files = f_pre.files
    /\ f_cause \in {"io", "format"} =>
         /\ \A j \in 1..(f_i - 1) :
              /\ PageName(j, f_args.fmt) \in DOMAIN f_files
              /\ f_files[PageName(j, f_args.fmt)] = NewFile(j)
         /\ \A j \in (f_i + 1)..f_pdf.pages : SameAsBefore(PageName(j, f_args.fmt))
         /\ \A name \in (DOMAIN f_files \cup DOMAIN f_pre.files) \ PageNames :
              SameAsBefore(name)
         /\ f_pc = "exited" => f_exit = <<1>>

C10_Step ==
  /\ f_dirExists' # f_dirExists =>
       /\ f_pc = "mkdir" /\ f_dirExists'
       /\ f_images = <<>> /\ f_files' = f_files
  /\ (f_images' # f_images /\ f_run' = f_run) =>
       /\ f_pc = "convert" /\ f_dirExists
       /\ f_files' = f_files /\ f_files = f_pre.files
       /\ Len(f_images') = f_pdf.pages
  /\ f_files' # f_files =>
       /\ f_pc = "save" /\ f_dirExists /\ Len(f_images) = f_pdf.pages
       /\ f_i \in 1..f_pdf.pages
       /\ \A name \in (DOMAIN f_files \cup DOMAIN f_files') \ {PageName(f_i, f_args.fmt)} :
            /\ name \in DOMAIN f_files /\ name \in DOMAIN f_files'
            /\ f_files'[name] = f_files[name]
       /\ f_i' \in {f_i, f_i + 1}
  /\ (f_run' = f_run /\ f_pc \in {"save", "except"}) =>
       \A j \in 1..(f_i - 1) :
         /\ PageName(j, f_args.fmt) \in DOMAIN f_files'
         /\ f_files'[PageName(j, f_args.fmt)] = NewFile(j)

C10_NoRollbackInOrder == []C10_Failure /\ [][C10_Step]_vars

\* the save of page 2 of 3 failed: page 1 of this run is on disk, page 3 is not
C10_Witness ==
  /\ f_pc = "exited" /\ PastChecks
  /\ f_cause = "io" /\ f_i = 2 /\ f_pdf.pages = 3
  /\ f_files[PageName(1, f_args.fmt)] = NewFile(1)
  /\ PageName(3, f_args.fmt) \notin DOMAIN f_files
  /\ f_exit = <<1>>

====
